---- MODULE Spec2Model ----
(***************************************************************************)
(* Model of the pizza.hunt browser script (src/scripts/main.js).           *)
(*                                                                         *)
(* The source file holds three variants of the same script:                *)
(*   "v1"  lines   1-215  places and city search through the Python API    *)
(*   "v2"  lines 217-497  API_BASE decides per call: Overpass/Nominatim    *)
(*                        ("v2o") or the Python API ("v2p")                *)
(*   "v3"  lines 501-773  Overpass/Nominatim only                          *)
(* A behaviour runs one of them; the variable "variant" says which.        *)
(*                                                                         *)
(* Coordinates are integers in thousandths of a degree.  A JavaScript      *)
(* string is a sequence of chunks (<<>> is the empty string) where the     *)
(* code builds or parses it, and a TLA+ string where it only copies it.    *)
(* An async function is one action up to its await and one action for the  *)
(* continuation that the settled promise starts.                           *)
(***************************************************************************)
EXTENDS Integers, Sequences, FiniteSets, TLC

\* ------------------------------------------------------------------ bounds
MaxTriggers == 3   \* user actions that start asynchronous work in one behaviour

\* --------------------------------------------------------- program values
NaN == -999999         \* the number parseFloat gives for unparsable text
Undefined == -999998   \* a property the upstream record does not have

DefaultLat == 52520    \* let currentLat = 52.52
DefaultLng == 13405    \* let currentLng = 13.405
Radius == 50           \* radius / bbox = 0.05
MinZoom == 10          \* if (zoom < 10)

Variants == {"v1", "v2o", "v2p", "v3"}

\* API_BASE.includes('overpass-api.de'); the third variant has no other branch
UsesOverpass(v) == v \in {"v2o", "v3"}

\* useCurrentLocation and searchCurrentArea exist in the first and third variant
HasAreaControls(v) == v \in {"v1", "v3"}

\* isNaN(x) as the map library's coordinate check sees it
IsInvalid(x) == x \in {NaN, Undefined}

\* x - r and x + r of JavaScript numbers (undefined and NaN give NaN)
Minus(x, r) == IF IsInvalid(x) THEN NaN ELSE x - r
Plus(x, r) == IF IsInvalid(x) THEN NaN ELSE x + r

\* ------------------------------------------------------------- strings
Digits == {"0", "1", "2", "3", "4", "5", "6", "7", "8", "9"}

DigitVal(c) ==
  CASE c = "0" -> 0 [] c = "1" -> 1 [] c = "2" -> 2 [] c = "3" -> 3
    [] c = "4" -> 4 [] c = "5" -> 5 [] c = "6" -> 6 [] c = "7" -> 7
    [] c = "8" -> 8 [] c = "9" -> 9

RECURSIVE DropLeadingSpace(_)
DropLeadingSpace(s) ==
  IF s # <<>> /\ Head(s) = " " THEN DropLeadingSpace(Tail(s)) ELSE s

RECURSIVE DropTrailingSpace(_)
DropTrailingSpace(s) ==
  IF s # <<>> /\ s[Len(s)] = " "
    THEN DropTrailingSpace(SubSeq(s, 1, Len(s) - 1))
    ELSE s

\* mutant of trim: the query is used as typed
trim_AsTyped(s) == s

\* String.prototype.trim
trim(s) == DropTrailingSpace(DropLeadingSpace(s))

RECURSIVE LeadingDigits(_)
LeadingDigits(s) ==
  IF s # <<>> /\ Head(s) \in Digits
    THEN <<Head(s)>> \o LeadingDigits(Tail(s))
    ELSE <<>>

RECURSIVE DigitsValue(_, _)
DigitsValue(ds, acc) ==
  IF ds = <<>> THEN acc ELSE DigitsValue(Tail(ds), 10 * acc + DigitVal(Head(ds)))

\* the first three fraction digits, as thousandths
Thousandths(ds) ==
  LET d(i) == IF i <= Len(ds) THEN DigitVal(ds[i]) ELSE 0
  IN  100 * d(1) + 10 * d(2) + d(3)

\* parseFloat: skips leading white space, reads an optional sign, digits and
\* an optional fraction, ignores whatever follows, and gives NaN when no
\* digit was read.  The result is in thousandths.
parseFloat(s) ==
  LET t == DropLeadingSpace(s)
      neg == t # <<>> /\ Head(t) = "-"
      u == IF neg THEN Tail(t) ELSE t
      ip == LeadingDigits(u)
      rest == SubSeq(u, Len(ip) + 1, Len(u))
      fp == IF rest # <<>> /\ Head(rest) = "." THEN LeadingDigits(Tail(rest)) ELSE <<>>
      mag == 1000 * DigitsValue(ip, 0) + Thousandths(fp)
  IN  IF ip = <<>> /\ fp = <<>> THEN NaN
      ELSE IF neg THEN 0 - mag ELSE mag

\* a || b on strings: the empty string is falsy
OrElse(a, b) == IF a # "" THEN a ELSE b

RECURSIVE join(_, _)
\* Array.prototype.join
join(parts, sep) ==
  IF parts = <<>> THEN <<>>
  ELSE IF Len(parts) = 1 THEN <<parts[1]>>
  ELSE <<parts[1], sep>> \o join(Tail(parts), sep)

\* mutant of buildAddress: every tag is pushed, present or not
buildAddress_EveryTag(tags) ==
  join(<<tags.housenumber, tags.street, tags.city>>, ", ")

\* buildAddress(tags): parts.push for each tag that is truthy, then
\* parts.join(', ') || '' (the empty join is already the empty string)
buildAddress(tags) ==
  LET p1 == IF tags.housenumber # "" THEN <<tags.housenumber>> ELSE <<>>
      p2 == IF tags.street # "" THEN <<tags.street>> ELSE <<>>
      p3 == IF tags.city # "" THEN <<tags.city>> ELSE <<>>
  IN  join(p1 \o p2 \o p3, ", ")

\* ------------------------------------------------- upstream data (inputs)
NoTags ==
  [name |-> "", amenity |-> "", shop |-> "", housenumber |-> "", street |-> "", city |-> ""]

\* the raw elements a response may carry: a node, a node on the equator, a
\* way that has only a center, and a record without any coordinates
NodeElement ==
  [lat |-> 52520, lon |-> 13405, hasCenter |-> FALSE, clat |-> Undefined, clon |-> Undefined,
   tags |-> [name |-> "Da Mario", amenity |-> "restaurant", shop |-> "",
             housenumber |-> "10", street |-> "Main St", city |-> "Springfield"]]

EquatorElement ==
  [lat |-> 0, lon |-> 13405, hasCenter |-> FALSE, clat |-> Undefined, clon |-> Undefined,
   tags |-> NoTags]

WayElement ==
  [lat |-> Undefined, lon |-> Undefined, hasCenter |-> TRUE, clat |-> 48137, clon |-> 11575,
   tags |-> [name |-> "", amenity |-> "", shop |-> "food",
             housenumber |-> "", street |-> "", city |-> "Springfield"]]

BareElement ==
  [lat |-> Undefined, lon |-> Undefined, hasCenter |-> FALSE, clat |-> Undefined, clon |-> Undefined,
   tags |-> NoTags]

\* the values of data.elements
ElementLists ==
  { <<>>, <<NodeElement>>, <<EquatorElement, WayElement>>, <<NodeElement, BareElement>> }

\* the place records the Python API may send: two good ones and one whose
\* coordinates are missing
GoodPlace ==
  [lat |-> 52520, lng |-> 13405, name |-> "Da Mario", amenity |-> "restaurant",
   address |-> <<"10", ", ", "Main St">>]

OtherPlace ==
  [lat |-> 48137, lng |-> 11575, name |-> "Pizza Place", amenity |-> "fast_food",
   address |-> <<>>]

BadPlace ==
  [lat |-> Undefined, lng |-> Undefined, name |-> "Pizza Place", amenity |-> "restaurant",
   address |-> <<>>]

\* the values of data.places
PlaceLists ==
  { <<>>, <<GoodPlace>>, <<GoodPlace, OtherPlace>>, <<GoodPlace, BadPlace>> }

\* what a settled place request delivers: fetch rejected, response.json()
\* rejected, or the parsed data
FailedReplies ==
  { [kind |-> k, success |-> FALSE, error |-> "", hasList |-> FALSE, list |-> <<>>] :
      k \in {"neterr", "badjson"} }

OverpassReplies ==
  FailedReplies
    \cup { [kind |-> "json", success |-> FALSE, error |-> "", hasList |-> FALSE, list |-> <<>>] }
    \cup { [kind |-> "json", success |-> FALSE, error |-> "", hasList |-> TRUE, list |-> l] :
             l \in ElementLists }

ApiReplies ==
  FailedReplies
    \cup { [kind |-> "json", success |-> FALSE, error |-> e, hasList |-> FALSE, list |-> <<>>] :
             e \in {"x", "upstream down"} }
    \cup { [kind |-> "json", success |-> TRUE, error |-> "", hasList |-> FALSE, list |-> <<>>] }
    \cup { [kind |-> "json", success |-> TRUE, error |-> "", hasList |-> TRUE, list |-> l] :
             l \in PlaceLists }

PlaceReplies(v) == IF UsesOverpass(v) THEN OverpassReplies ELSE ApiReplies

\* error.message of the rejected fetch and of the rejected response.json()
FetchErrorMessage(kind) ==
  IF kind = "neterr" THEN "Failed to fetch" ELSE "Unexpected token < in JSON"

\* ------------------------------------------------------- normalization
\* a JavaScript number used as a condition
Truthy(x) == x \notin {0, NaN, Undefined}

\* the callback of data.elements.map in the second variant; Null is the
\* returned null
Null == [null |-> TRUE]

MapElementV2(el) ==
  LET tags == el.tags
      place(lat, lng) ==
        [lat |-> lat, lng |-> lng,
         name |-> OrElse(tags.name, "Pizza Place"),
         amenity |-> OrElse(tags.amenity, OrElse(tags.shop, "restaurant")),
         address |-> buildAddress(tags)]
  IN  IF Truthy(el.lat) /\ Truthy(el.lon) THEN place(el.lat, el.lon)
      ELSE IF el.hasCenter THEN place(el.clat, el.clon)
      ELSE Null

\* the callback of data.elements.map in the third variant
MapElementV3(el) ==
  [lat |-> el.lat, lng |-> el.lon,
   name |-> OrElse(el.tags.name, "Pizza Place"),
   amenity |-> OrElse(el.tags.amenity, "restaurant"),
   address |-> buildAddress(el.tags)]

RECURSIVE FilterBoolean(_)
\* .filter(Boolean)
FilterBoolean(xs) ==
  IF xs = <<>> THEN <<>>
  ELSE IF Head(xs) = Null THEN FilterBoolean(Tail(xs))
  ELSE <<Head(xs)>> \o FilterBoolean(Tail(xs))

\* data.elements -> places
NormalizeV2(elements) ==
  FilterBoolean([i \in 1..Len(elements) |-> MapElementV2(elements[i])])

NormalizeV3(elements) ==
  [i \in 1..Len(elements) |-> MapElementV3(elements[i])]

Normalize(v, elements) ==
  IF v = "v3" THEN NormalizeV3(elements) ELSE NormalizeV2(elements)

\* ----------------------------------------------------------- rendering
createPopupContent(place) ==
  <<place.name, place.amenity>> \o (IF place.address # <<>> THEN place.address ELSE <<>>)

\* L.marker([place.lat, place.lng]).bindPopup(...).bindTooltip(place.name)
Marker(place) ==
  [lat |-> place.lat, lng |-> place.lng, tooltip |-> place.name,
   popup |-> createPopupContent(place)]

BadCoordinates(place) == IsInvalid(place.lat) \/ IsInvalid(place.lng)

\* the index of the first place the map library refuses, 0 if there is none.
\* The library is not part of the repository: "rejects" says whether it throws
\* on coordinates that are not numbers.
FirstRejected(places, rejects) ==
  IF rejects /\ \E i \in 1..Len(places) : BadCoordinates(places[i])
    THEN CHOOSE i \in 1..Len(places) :
           /\ BadCoordinates(places[i])
           /\ \A j \in 1..(i - 1) : ~BadCoordinates(places[j])
    ELSE 0

\* addPizzaMarkers(places) applied to the marker layer: clearLayers() first,
\* then one marker per place until a call throws.  hasList is FALSE when
\* "places" is undefined, and places.forEach then throws.
addPizzaMarkers(places, hasList, rejects) ==
  LET bad == FirstRejected(places, rejects)
      upto == IF bad = 0 THEN Len(places) ELSE bad - 1
  IN  IF ~hasList
        THEN [layers |-> <<>>, threw |-> TRUE,
              message |-> "Cannot read properties of undefined (reading 'forEach')"]
        ELSE [layers |-> [i \in 1..upto |-> Marker(places[i])],
              threw |-> bad # 0,
              message |-> IF bad # 0 THEN "Invalid LatLng object" ELSE ""]

\* ---------------------------------------------------------------- status
\* updateStatus(message, type): the message is a template, the number and
\* the text interpolated into it
St(tpl, n, detail, type) == [tpl |-> tpl, n |-> n, detail |-> detail, type |-> type]

LoadingStatus(v) ==
  IF v = "v1" THEN St("Loading pizza places from API...", 0, "", "")
  ELSE St("Loading pizza places...", 0, "", "")

ErrorStatus(message) == St("Error: ${}", 0, message, "error")
FoundPlacesStatus(n) == St("Found ${} pizza places!", n, "", "success")
ValidationStatus == St("Please enter a city name", 0, "", "error")
CityErrorStatus(message) == St("City search error: ${}", 0, message, "error")
CityNotFoundStatus == St("City not found", 0, "", "error")
FoundCityStatus(name) == St("Found ${}", 0, name, "success")

\* -------------------------------------------------------------- requests
\* the request loadPizzaPlaces sends for the center (lat, lng)
PlacesRequest(v, lat, lng) ==
  IF UsesOverpass(v)
    THEN [method |-> "POST",
          south |-> Minus(lat, Radius), west |-> Minus(lng, Radius),
          north |-> Plus(lat, Radius), east |-> Plus(lng, Radius)]
    ELSE [method |-> "GET", lat |-> lat, lng |-> lng, radius |-> Radius]

\* the point a place request is centered on
RequestCenter(v, req) ==
  IF UsesOverpass(v)
    THEN << IF IsInvalid(req.south) THEN NaN ELSE (req.south + req.north) \div 2,
            IF IsInvalid(req.west) THEN NaN ELSE (req.west + req.east) \div 2 >>
    ELSE <<req.lat, req.lng>>

\* ----------------------------------------------------------------- state
VARIABLES
  variant,         \* which of the three scripts runs, and its API_BASE
  booted,          \* DOMContentLoaded has run: map and markerCluster exist
  currentLat,      \* let currentLat
  currentLng,      \* let currentLng
  markerCluster,   \* the layers of markerCluster, in the order added
  loadingOverlay,  \* #loadingOverlay style.display
  status,          \* #status textContent and className
  placeReqs,       \* loadPizzaPlaces invocations waiting for their response
  cityReqs,        \* searchCity invocations waiting for their response
  geoPending,      \* getCurrentPosition calls whose callback has not run
  nextId,          \* number of the next place fetch (1 + fetches issued)
  triggers,        \* user actions so far that started asynchronous work
  completed,       \* history: the place fetch that ended last, and the one before
  addressCall      \* one call of buildAddress: its argument and what it returned

vars ==
  <<variant, booted, currentLat, currentLng, markerCluster, loadingOverlay, status,
    placeReqs, cityReqs, geoPending, nextId, triggers, completed, addressCall>>

\* no place fetch has ended yet
NoneCompleted ==
  [id |-> 0, ok |-> FALSE, places |-> <<>>, others |-> {},
   prevId |-> 0, prevOk |-> FALSE, overlapped |-> FALSE]

\* buildAddress has not been entered
NoAddressCall == [tags |-> NoTags, returned |-> FALSE, address |-> <<>>]

Init ==
  /\ addressCall = NoAddressCall
  /\ variant \in Variants
  /\ booted = FALSE
  /\ currentLat = DefaultLat
  /\ currentLng = DefaultLng
  /\ markerCluster = <<>>
  /\ loadingOverlay = ""
  /\ status = St("", 0, "", "")
  /\ placeReqs = {}
  /\ cityReqs = {}
  /\ geoPending = 0
  /\ nextId = 1
  /\ triggers = 0
  /\ completed = NoneCompleted

\* loadPizzaPlaces() up to its first await: overlay on, status, request sent
\* for the center (lat, lng).  finalStatus is the status the calling handler
\* leaves behind (the loading message unless the caller overwrites it).
loadPizzaPlaces(lat, lng, finalStatus) ==
  /\ loadingOverlay' = "flex"
  /\ status' = finalStatus
  /\ placeReqs' = placeReqs \cup {[id |-> nextId, req |-> PlacesRequest(variant, lat, lng)]}
  /\ nextId' = nextId + 1

\* mutant of updateLocation: the fetch is started before the center is
\* assigned, so it goes out for the old center
updateLocation_FetchBeforeAssign(lat, lng, rejects, okStatus, thrownStatus) ==
  /\ currentLat' = lat
  /\ currentLng' = lng
  /\ IF rejects /\ (IsInvalid(lat) \/ IsInvalid(lng))
       THEN /\ status' = thrownStatus
            /\ UNCHANGED <<loadingOverlay, placeReqs, nextId>>
       ELSE loadPizzaPlaces(currentLat, currentLng, okStatus)

\* updateLocation(lat, lng).  map.setView throws when the library rejects
\* the coordinates; thrownStatus is the status the caller's catch then sets.
updateLocation(lat, lng, rejects, okStatus, thrownStatus) ==
  /\ currentLat' = lat
  /\ currentLng' = lng
  /\ IF rejects /\ (IsInvalid(lat) \/ IsInvalid(lng))
       THEN /\ status' = thrownStatus
            /\ UNCHANGED <<loadingOverlay, placeReqs, nextId>>
       ELSE loadPizzaPlaces(lat, lng, okStatus)

\* the DOMContentLoaded handler: initMap(), loadPizzaPlaces(), listeners
DOMContentLoaded ==
  /\ ~booted
  /\ booted' = TRUE
  /\ triggers' = triggers + 1
  /\ loadPizzaPlaces(currentLat, currentLng, LoadingStatus(variant))
  /\ UNCHANGED <<addressCall, variant, currentLat, currentLng, markerCluster, cityReqs,
                 geoPending, completed>>

\* ------------------------------------------------------------ city search
\* what the user may have typed into #cityInput
Queries == { <<>>, <<" ">>, <<" ", " ">>, <<"Berlin">>, <<" ", "Berlin", " ">> }

\* the matches the geocoder may send (limit=1): good coordinates, latitude
\* text that is no number, and text that only starts like a number
MatchPool ==
  { [lat |-> <<"4", "8", ".", "1", "3", "7">>, lon |-> <<"1", "1", ".", "5", "7", "5">>,
     display_name |-> "Munich"],
    [lat |-> <<"n", "/", "a">>, lon |-> <<"1", "1", ".", "5", "7", "5">>,
     display_name |-> "Nowhere"],
    [lat |-> <<" ", "4", "8", ".", "1", "3", "7", "2", "N">>,
     lon |-> <<"1", "1", ".", "5", "7", "5", "E">>,
     display_name |-> "Odd"] }

CityReply(kind, success, error, matches, lat, lng, city) ==
  [kind |-> kind, success |-> success, error |-> error, matches |-> matches,
   lat |-> lat, lng |-> lng, city |-> city]

NominatimReplies ==
  { CityReply(k, FALSE, "", <<>>, Undefined, Undefined, "") : k \in {"neterr", "badjson", "json"} }
    \cup { CityReply("json", FALSE, "", <<m>>, Undefined, Undefined, "") : m \in MatchPool }

CityApiReplies ==
  { CityReply(k, FALSE, "", <<>>, Undefined, Undefined, "") : k \in {"neterr", "badjson"} }
    \cup { CityReply("json", FALSE, "City not found", <<>>, Undefined, Undefined, ""),
           CityReply("json", TRUE, "", <<>>, 48137, 11575, "Munich"),
           CityReply("json", TRUE, "", <<>>, Undefined, Undefined, "Munich") }

CityReplies(v) == IF UsesOverpass(v) THEN NominatimReplies ELSE CityApiReplies

\* reply makes searchCity reach its updateLocation call
CityResolved(v, reply) ==
  /\ reply.kind = "json"
  /\ IF UsesOverpass(v) THEN Len(reply.matches) > 0 ELSE reply.success

\* parseFloat on the coordinate texts the geocoder may send
CoordinateTexts == { m.lat : m \in MatchPool } \cup { m.lon : m \in MatchPool }
ParsedCoordinate == [s \in CoordinateTexts |-> parseFloat(s)]

\* the arguments of that updateLocation call
ResolvedCoordinates(v, reply) ==
  IF UsesOverpass(v)
    THEN <<ParsedCoordinate[reply.matches[1].lat], ParsedCoordinate[reply.matches[1].lon]>>
    ELSE <<reply.lat, reply.lng>>

ResolvedName(v, reply) ==
  IF UsesOverpass(v) THEN reply.matches[1].display_name ELSE reply.city

\* mutant of CityFailureStatus: every failure is reported as a failed fetch
CityFailureStatus_AllTheSame(v, reply) == CityErrorStatus(FetchErrorMessage("neterr"))

\* the status searchCity leaves when reply does not resolve
CityFailureStatus(v, reply) ==
  IF reply.kind # "json" THEN CityErrorStatus(FetchErrorMessage(reply.kind))
  ELSE IF ~UsesOverpass(v) THEN CityErrorStatus(reply.error)
  ELSE IF v = "v3" THEN CityNotFoundStatus
  ELSE CityErrorStatus("City not found")

\* searchCity() up to its await, for the text q in the input field
searchCity(q) ==
  LET cityName == trim(q)
  IN  /\ booted
      /\ IF cityName = <<>>
           THEN /\ status' = ValidationStatus
                /\ UNCHANGED <<cityReqs, triggers>>
           ELSE /\ triggers < MaxTriggers
                /\ status' = St("Searching for city...", 0, "", "")
                /\ cityReqs' = cityReqs \cup {[id |-> triggers + 1, city |-> cityName]}
                /\ triggers' = triggers + 1
      /\ UNCHANGED <<addressCall, variant, booted, currentLat, currentLng, markerCluster,
                     loadingOverlay, placeReqs, geoPending, nextId, completed>>

\* the rest of searchCity() once the request r has settled with reply
searchCityResponse(r, reply, rejects) ==
  /\ r \in cityReqs
  /\ cityReqs' = cityReqs \ {r}
  /\ IF CityResolved(variant, reply)
       THEN updateLocation(ResolvedCoordinates(variant, reply)[1],
                           ResolvedCoordinates(variant, reply)[2], rejects,
                           FoundCityStatus(ResolvedName(variant, reply)),
                           CityErrorStatus("Invalid LatLng object"))
       ELSE /\ status' = CityFailureStatus(variant, reply)
            /\ UNCHANGED <<currentLat, currentLng, loadingOverlay, placeReqs, nextId>>
  /\ UNCHANGED <<addressCall, variant, booted, markerCluster, geoPending, triggers, completed>>

\* ------------------------------------------------------------ geolocation
\* the positions the browser may report
Positions == { <<48137, 11575>> }

\* useCurrentLocation(); supported is navigator.geolocation
useCurrentLocation(supported) ==
  /\ booted
  /\ HasAreaControls(variant)
  /\ IF supported
       THEN /\ triggers < MaxTriggers
            /\ status' = St("Getting your location...", 0, "", "")
            /\ geoPending' = geoPending + 1
            /\ triggers' = triggers + 1
       ELSE /\ status' = St("Geolocation not supported", 0, "", "error")
            /\ UNCHANGED <<geoPending, triggers>>
  /\ UNCHANGED <<addressCall, variant, booted, currentLat, currentLng, markerCluster,
                 loadingOverlay, placeReqs, cityReqs, nextId, completed>>

\* the success callback of getCurrentPosition
geolocationSuccess(pos) ==
  /\ geoPending > 0
  /\ geoPending' = geoPending - 1
  /\ updateLocation(pos[1], pos[2], TRUE, LoadingStatus(variant), status)
  /\ UNCHANGED <<addressCall, variant, booted, markerCluster, cityReqs, triggers, completed>>

\* the error callback of getCurrentPosition
geolocationError ==
  /\ geoPending > 0
  /\ geoPending' = geoPending - 1
  /\ status' = St("Location access denied", 0, "", "error")
  /\ UNCHANGED <<addressCall, variant, booted, currentLat, currentLng, markerCluster,
                 loadingOverlay, placeReqs, cityReqs, nextId, triggers, completed>>

\* ------------------------------------------------------------ map controls
\* The map widget is a collaborator the user drags and zooms at will: what
\* map.getCenter() and map.getZoom() return is an input of the handler.  (The
\* moveend handler only restyles a button and is left out.)
MapCenters == { <<48137, 11575>> }
ZoomLevels == { 9, 12 }

\* searchCurrentArea(), with center = map.getCenter() and zoom = map.getZoom()
searchCurrentArea(center, zoom) ==
  /\ booted
  /\ HasAreaControls(variant)
  /\ IF zoom < MinZoom
       THEN /\ status' = St("Please zoom in more to search a smaller area", 0, "", "error")
            /\ UNCHANGED <<currentLat, currentLng, loadingOverlay, placeReqs, nextId,
                           triggers>>
       ELSE /\ triggers < MaxTriggers
            /\ triggers' = triggers + 1
            /\ currentLat' = center[1]
            /\ currentLng' = center[2]
            /\ loadPizzaPlaces(center[1], center[2], LoadingStatus(variant))
  /\ UNCHANGED <<addressCall, variant, booted, markerCluster, cityReqs, geoPending, completed>>

\* ------------------------------------------------- place fetch completion
\* reply makes loadPizzaPlaces reach its addPizzaMarkers call
ReachesRender(v, reply) ==
  /\ reply.kind = "json"
  /\ IF UsesOverpass(v) THEN reply.hasList ELSE reply.success

\* the argument of that call (the empty list stands in for an undefined one)
PlacesOf(v, reply) ==
  IF UsesOverpass(v) THEN Normalize(v, reply.list) ELSE reply.list

\* mutant of LoadFailureMessage: the upstream error text is not passed on
LoadFailureMessage_Generic(v, reply) ==
  IF reply.kind # "json" THEN FetchErrorMessage(reply.kind) ELSE "Request failed"

\* error.message when loadPizzaPlaces does not reach the call
LoadFailureMessage(v, reply) ==
  IF reply.kind # "json" THEN FetchErrorMessage(reply.kind)
  ELSE IF UsesOverpass(v) THEN "Cannot read properties of undefined (reading 'map')"
  ELSE reply.error

\* mutant of LoadOutcome: addPizzaMarkers without clearLayers(), the new
\* markers are added to the ones on display
LoadOutcome_NoClear(v, layers, reply, rejects) ==
  LET places == PlacesOf(v, reply)
      r == addPizzaMarkers(places, UsesOverpass(v) \/ reply.hasList, rejects)
  IN  IF ~ReachesRender(v, reply)
        THEN [layers |-> layers, status |-> ErrorStatus(LoadFailureMessage(v, reply)),
              ok |-> FALSE, places |-> <<>>]
      ELSE IF r.threw
        THEN [layers |-> layers \o r.layers, status |-> ErrorStatus(r.message),
              ok |-> FALSE, places |-> <<>>]
      ELSE [layers |-> layers \o r.layers, status |-> FoundPlacesStatus(Len(places)),
            ok |-> TRUE, places |-> places]

\* what the rest of loadPizzaPlaces() does with reply: the marker layer and
\* the status it leaves, whether it rendered to the end (ok), and the places
\* it rendered from
LoadOutcome(v, layers, reply, rejects) ==
  LET places == PlacesOf(v, reply)
      r == addPizzaMarkers(places, UsesOverpass(v) \/ reply.hasList, rejects)
  IN  IF ~ReachesRender(v, reply)
        THEN [layers |-> layers, status |-> ErrorStatus(LoadFailureMessage(v, reply)),
              ok |-> FALSE, places |-> <<>>]
      ELSE IF r.threw
        THEN [layers |-> r.layers, status |-> ErrorStatus(r.message),
              ok |-> FALSE, places |-> <<>>]
      ELSE [layers |-> r.layers, status |-> FoundPlacesStatus(Len(places)),
            ok |-> TRUE, places |-> places]

\* the history entry for the fetch that ends now, after the entry "last"
Remember(last, id, ok, places, others) ==
  [id |-> id, ok |-> ok, places |-> places, others |-> others,
   prevId |-> last.id, prevOk |-> last.ok, overlapped |-> id \in last.others]

\* mutant of loadPizzaPlacesResponse: request fencing, the response of a
\* fetch that is no longer the last one issued is not rendered
loadPizzaPlacesResponse_Fenced(r, reply, rejects) ==
  LET out == LoadOutcome(variant, markerCluster, reply, rejects)
      stale == r.id < nextId - 1
  IN  /\ r \in placeReqs
      /\ placeReqs' = placeReqs \ {r}
      /\ markerCluster' = IF stale THEN markerCluster ELSE out.layers
      /\ status' = IF stale THEN status ELSE out.status
      /\ loadingOverlay' = "none"
      /\ completed' = Remember(completed, r.id, out.ok, out.places,
                               {x.id : x \in placeReqs \ {r}})
      /\ UNCHANGED <<addressCall, variant, booted, currentLat, currentLng, cityReqs, geoPending,
                     nextId, triggers>>

\* mutant of loadPizzaPlacesResponse: a fetch that failed is sent again (once
\* per trigger)
loadPizzaPlacesResponse_Retry(r, reply, rejects) ==
  LET out == LoadOutcome(variant, markerCluster, reply, rejects)
      retry == ~out.ok /\ nextId <= MaxTriggers
  IN  /\ r \in placeReqs
      /\ placeReqs' = IF retry THEN (placeReqs \ {r}) \cup {[id |-> nextId, req |-> r.req]}
                               ELSE placeReqs \ {r}
      /\ nextId' = IF retry THEN nextId + 1 ELSE nextId
      /\ markerCluster' = out.layers
      /\ status' = out.status
      /\ loadingOverlay' = "none"
      /\ completed' = Remember(completed, r.id, out.ok, out.places,
                               {x.id : x \in placeReqs \ {r}})
      /\ UNCHANGED <<addressCall, variant, booted, currentLat, currentLng, cityReqs, geoPending,
                     triggers>>

\* mutant of loadPizzaPlacesResponse: the return on a success:false envelope
\* leaves the function without passing through showLoading(false)
loadPizzaPlacesResponse_ReturnSkipsFinally(r, reply, rejects) ==
  LET out == LoadOutcome(variant, markerCluster, reply, rejects)
      returnsEarly == ~UsesOverpass(variant) /\ reply.kind = "json" /\ ~reply.success
  IN  /\ r \in placeReqs
      /\ placeReqs' = placeReqs \ {r}
      /\ markerCluster' = out.layers
      /\ status' = out.status
      /\ loadingOverlay' = IF returnsEarly THEN loadingOverlay ELSE "none"
      /\ completed' = Remember(completed, r.id, out.ok, out.places,
                               {x.id : x \in placeReqs \ {r}})
      /\ UNCHANGED <<addressCall, variant, booted, currentLat, currentLng, cityReqs, geoPending,
                     nextId, triggers>>

\* the rest of loadPizzaPlaces() once the request r has settled with reply
loadPizzaPlacesResponse(r, reply, rejects) ==
  LET out == LoadOutcome(variant, markerCluster, reply, rejects)
  IN  /\ r \in placeReqs
      /\ placeReqs' = placeReqs \ {r}
      /\ markerCluster' = out.layers
      /\ status' = out.status
      /\ loadingOverlay' = "none"
      /\ completed' = Remember(completed, r.id, out.ok, out.places,
                               {x.id : x \in placeReqs \ {r}})
      /\ UNCHANGED <<addressCall, variant, booted, currentLat, currentLng, cityReqs, geoPending,
                     nextId, triggers>>

\* ------------------------------------------------------------------- spec
\* whether the map library throws on coordinates that are not numbers is its
\* business: both outcomes are possible where such coordinates reach it
LibraryChoices(reached) == IF reached THEN BOOLEAN ELSE {FALSE}

CityLibraryChoices(v, reply) ==
  LibraryChoices(/\ CityResolved(v, reply)
                 /\ \E i \in 1..2 : IsInvalid(ResolvedCoordinates(v, reply)[i]))

PlaceLibraryChoices(v, reply) ==
  LibraryChoices(/\ ReachesRender(v, reply)
                 /\ \E i \in 1..Len(PlacesOf(v, reply)) : BadCoordinates(PlacesOf(v, reply)[i]))

Next ==
  \/ DOMContentLoaded
  \/ \E q \in Queries : searchCity(q)
  \/ \E r \in cityReqs, reply \in CityReplies(variant) :
       \E rejects \in CityLibraryChoices(variant, reply) :
         searchCityResponse(r, reply, rejects)
  \/ \E supported \in BOOLEAN : useCurrentLocation(supported)
  \/ \E pos \in Positions : geolocationSuccess(pos)
  \/ geolocationError
  \/ \E center \in MapCenters, zoom \in ZoomLevels : searchCurrentArea(center, zoom)
  \/ \E r \in placeReqs, reply \in PlaceReplies(variant) :
       \E rejects \in PlaceLibraryChoices(variant, reply) :
         loadPizzaPlacesResponse(r, reply, rejects)

Spec == Init /\ [][Next]_vars

\* ------------------------------------------------- buildAddress on its own
\* The tags an element may carry for its address; "" is a tag that is absent
\* (or empty: both are falsy in the tests of buildAddress).
HouseNumbers == { "", "10", "7a", "221B" }
Streets == { "", "Main St", "Elm Row", "Via Roma" }
Cities == { "", "Springfield", "Berlin", "Napoli" }

AddressTags ==
  { [NoTags EXCEPT !.housenumber = h, !.street = s, !.city = c] :
      h \in HouseNumbers, s \in Streets, c \in Cities }

\* the scripts that call buildAddress on upstream tags
AddressInit ==
  /\ \E tags \in AddressTags :
       addressCall = [tags |-> tags, returned |-> FALSE, address |-> <<>>]
  /\ variant \in { v \in Variants : UsesOverpass(v) }
  /\ booted = FALSE
  /\ currentLat = DefaultLat
  /\ currentLng = DefaultLng
  /\ markerCluster = <<>>
  /\ loadingOverlay = ""
  /\ status = St("", 0, "", "")
  /\ placeReqs = {}
  /\ cityReqs = {}
  /\ geoPending = 0
  /\ nextId = 1
  /\ triggers = 0
  /\ completed = NoneCompleted

\* address: buildAddress(tags) in the callback of data.elements.map
buildAddressCall ==
  /\ ~addressCall.returned
  /\ addressCall' = [addressCall EXCEPT !.returned = TRUE,
                                        !.address = buildAddress(addressCall.tags)]
  /\ UNCHANGED <<variant, booted, currentLat, currentLng, markerCluster, loadingOverlay,
                 status, placeReqs, cityReqs, geoPending, nextId, triggers, completed>>

AddressNext == buildAddressCall

AddressSpec == AddressInit /\ [][AddressNext]_vars

\* ================================================================ claims
\* the marker layer that renders places
MarkersOf(places) == [i \in 1..Len(places) |-> Marker(places[i])]

\* the step adds exactly one place request, and it is centered on (lat, lng)
OneFetchCenteredOn(lat, lng) ==
  /\ nextId' = nextId + 1
  /\ \E q \in placeReqs' :
       /\ q \notin placeReqs
       /\ placeReqs' = placeReqs \cup {q}
       /\ q.id = nextId
       /\ RequestCenter(variant, q.req) = <<lat, lng>>

\* the step sends nothing to the network
NoRequestIssued ==
  /\ placeReqs' \subseteq placeReqs
  /\ cityReqs' \subseteq cityReqs
  /\ nextId' = nextId

CenterUnchanged == currentLat' = currentLat /\ currentLng' = currentLng

\* ---- C1
\* C1 as stated: fetch A is issued before fetch B, both succeed, B's response
\* arrives first; when A's response has arrived too the marker layer shows
\* B's result.  (completed is B's entry before the step and A's after it.)
C1_LastIssuedWins ==
  [][ ( /\ completed.ok
        /\ completed'.ok
        /\ completed'.prevId = completed.id
        /\ completed'.id < completed.id )
      => markerCluster' = MarkersOf(completed.places) ]_vars

\* C1 amended: fetch A is issued before fetch B, both succeed, B's response
\* arrives first; once both have ended (and no other fetch ended after them)
\* the marker layer shows A's result, the response that arrived later.
C1_LaterResponseOfOlderFetchWins ==
  ( /\ completed.ok
    /\ completed.prevOk
    /\ completed.id < completed.prevId )
  => markerCluster = MarkersOf(completed.places)

\* two fetches, the older one answered last with a result that is not empty
C1_Witness ==
  /\ completed.ok
  /\ completed.prevOk
  /\ completed.id < completed.prevId
  /\ placeReqs = {}
  /\ markerCluster # <<>>

\* ---- C2
\* C2: two successful fetches were in flight at the same time; after both
\* have ended the marker layer shows the result of the one whose response
\* came later, whichever was issued first.
C2_LaterCompletingResponseWins ==
  ( /\ completed.ok
    /\ completed.prevOk
    /\ completed.overlapped )
  => /\ markerCluster = MarkersOf(completed.places)
     /\ Len(markerCluster) = Len(completed.places)

\* two overlapping fetches answered in the order they were issued
C2_Witness ==
  /\ completed.ok
  /\ completed.prevOk
  /\ completed.overlapped
  /\ completed.prevId < completed.id
  /\ placeReqs = {}
  /\ markerCluster # <<>>

\* ---- C3
\* C3: a location resolution that succeeds (a city search whose match has
\* numeric coordinates, or the geolocation success callback, both through
\* updateLocation) sets currentLat and currentLng to the resolved point in
\* that step and sends exactly one place request, centered on that point.
C3_ResolutionRecentersAndFetchesOnce ==
  [][ /\ (cityReqs' # cityReqs) =>
           \A r \in cityReqs : \A reply \in CityReplies(variant), rejects \in BOOLEAN :
             ( /\ CityResolved(variant, reply)
               /\ ~IsInvalid(ResolvedCoordinates(variant, reply)[1])
               /\ ~IsInvalid(ResolvedCoordinates(variant, reply)[2])
               /\ searchCityResponse(r, reply, rejects) )
             => /\ currentLat' = ResolvedCoordinates(variant, reply)[1]
                /\ currentLng' = ResolvedCoordinates(variant, reply)[2]
                /\ OneFetchCenteredOn(ResolvedCoordinates(variant, reply)[1],
                                      ResolvedCoordinates(variant, reply)[2])
      /\ (geoPending' # geoPending) =>
           \A pos \in Positions :
             geolocationSuccess(pos)
             => /\ currentLat' = pos[1]
                /\ currentLng' = pos[2]
                /\ OneFetchCenteredOn(pos[1], pos[2])
    ]_vars

\* a city was found, the center moved there and the fetch for it is in flight
C3_Witness ==
  /\ status = FoundCityStatus("Munich")
  /\ currentLat = 48137
  /\ currentLng = 11575
  /\ \E q \in placeReqs : RequestCenter(variant, q.req) = <<48137, 11575>>

\* ---- C4
\* the fetch failed in the network, or its response was no JSON, or the JSON
\* lacks the list the script reads
FailedOrMisshapen(v, reply) ==
  \/ reply.kind # "json"
  \/ UsesOverpass(v) /\ ~reply.hasList
  \/ ~UsesOverpass(v) /\ reply.success /\ ~reply.hasList

\* C4: when a place fetch fails (network failure, non-JSON response, or a
\* response of an unexpected shape) the status shows an error and the marker
\* layer stays exactly as it was.
C4_FailedFetchKeepsMarkers ==
  [][ \A r \in placeReqs, reply \in PlaceReplies(variant), rejects \in BOOLEAN :
        ( /\ FailedOrMisshapen(variant, reply)
          /\ loadPizzaPlacesResponse(r, reply, rejects) )
        => /\ status'.type = "error"
           /\ markerCluster' = markerCluster ]_vars

\* ---- C5
\* C5: a Python API place response {success: false, error: e} ends in the
\* error status "Error: e" and renders nothing: addPizzaMarkers is not
\* called, so the marker layer keeps what it had and gains no marker.
C5_EnvelopeErrorIsShownAndNothingRendered ==
  [][ \A r \in placeReqs, reply \in PlaceReplies(variant), rejects \in BOOLEAN :
        ( /\ ~UsesOverpass(variant)
          /\ reply.kind = "json"
          /\ ~reply.success
          /\ loadPizzaPlacesResponse(r, reply, rejects) )
        => /\ status'.type = "error"
           /\ status'.tpl = "Error: ${}"
           /\ status'.detail = reply.error
           /\ markerCluster' = markerCluster ]_vars

\* the upstream text "x" is on display while earlier markers are still there
C5_Witness ==
  /\ ~UsesOverpass(variant)
  /\ status = St("Error: ${}", 0, "x", "error")
  /\ completed.id > 0
  /\ ~completed.ok
  /\ markerCluster # <<>>

\* ---- C6
\* the element has direct coordinates or a center to fall back on
HasCoordinates(el) ==
  \/ el.lat # Undefined /\ el.lon # Undefined
  \/ el.hasCenter

CountWithCoordinates(elements) ==
  Cardinality({i \in 1..Len(elements) : HasCoordinates(elements[i])})

\* C6: normalization drops exactly the elements that have neither direct
\* coordinates nor a center: the number of places found (the count in the
\* success status, places.length) is the number of elements that have one.
C6_DropsExactlyTheCoordinatelessElements ==
  [][ \A r \in placeReqs, reply \in PlaceReplies(variant), rejects \in BOOLEAN :
        ( /\ UsesOverpass(variant)
          /\ ReachesRender(variant, reply)
          /\ loadPizzaPlacesResponse(r, reply, rejects)
          /\ status'.type = "success" )
        => status'.n = CountWithCoordinates(reply.list) ]_vars

\* ---- C7
\* the query is empty or white space only
Blank(q) == \A i \in 1..Len(q) : q[i] = " "

\* C7: searchCity with an empty or white-space-only query sends no request,
\* shows the validation error, and leaves the search center and the marker
\* layer as they were.
C7_BlankQueryIsRejectedBeforeTheNetwork ==
  [][ \A q \in Queries :
        (Blank(q) /\ searchCity(q))
        => /\ NoRequestIssued
           /\ status' = St("Please enter a city name", 0, "", "error")
           /\ CenterUnchanged
           /\ markerCluster' = markerCluster ]_vars

\* the validation error is on display and nothing is in flight for it
C7_Witness ==
  /\ status = St("Please enter a city name", 0, "", "error")
  /\ cityReqs = {}
  /\ booted

\* ---- C8
\* the statuses a network failure of the geocoding request may leave
CityNetworkErrorStatuses ==
  { St("City search error: ${}", 0, FetchErrorMessage(k), "error") : k \in {"neterr", "badjson"} }

\* the "not found" statuses of the two Nominatim variants
NotFoundStatuses ==
  { St("City not found", 0, "", "error"),
    St("City search error: ${}", 0, "City not found", "error") }

\* C8: when the geocoder answers with zero matches, city search ends in a
\* "not found" error status that no network failure produces, and neither
\* moves the search center nor sends a place request.
C8_ZeroMatchesIsNotFound ==
  [][ \A r \in cityReqs, reply \in CityReplies(variant), rejects \in BOOLEAN :
        ( /\ UsesOverpass(variant)
          /\ reply.kind = "json"
          /\ Len(reply.matches) = 0
          /\ searchCityResponse(r, reply, rejects) )
        => /\ status' \in NotFoundStatuses
           /\ status' \notin CityNetworkErrorStatuses
           /\ CenterUnchanged
           /\ NoRequestIssued ]_vars

\* "not found" is on display and the search center is still the default
C8_Witness ==
  /\ UsesOverpass(variant)
  /\ status \in NotFoundStatuses
  /\ currentLat = DefaultLat
  /\ currentLng = DefaultLng
  /\ placeReqs = {}

\* ---- C9
\* the text is a number: an optional sign, digits, at most one point
NumberText(s) ==
  LET body == IF s # <<>> /\ Head(s) = "-" THEN Tail(s) ELSE s
  IN  /\ \E i \in 1..Len(body) : body[i] \in Digits
      /\ \A i \in 1..Len(body) : body[i] \in Digits \cup {"."}
      /\ Cardinality({i \in 1..Len(body) : body[i] = "."}) <= 1

\* C9: when the first match carries latitude or longitude text that is not
\* a number, city search ends in an error, the search center keeps its
\* value and no place request is sent.
C9_UnparsableCoordinatesAreRejected ==
  [][ \A r \in cityReqs, reply \in CityReplies(variant), rejects \in BOOLEAN :
        ( /\ UsesOverpass(variant)
          /\ reply.kind = "json"
          /\ Len(reply.matches) > 0
          /\ ~(NumberText(reply.matches[1].lat) /\ NumberText(reply.matches[1].lon))
          /\ searchCityResponse(r, reply, rejects) )
        => /\ status'.type = "error"
           /\ CenterUnchanged
           /\ NoRequestIssued ]_vars

\* ---- C10
\* the step was started by the user
UserTrigger == triggers' = triggers + 1

\* the step continues a lookup that succeeded: a city search or a
\* geolocation lookup ended and the step did not end in an error
ResolutionContinues ==
  /\ status'.type # "error"
  /\ \/ cityReqs' # cityReqs
     \/ geoPending' < geoPending

\* C10: an error ends the action it belongs to and nothing else.  A step
\* that ends in an error status sends no request; a request is only ever
\* sent by a user trigger or by the continuation of a lookup that succeeded
\* (never as a retry); and after any error a new city search, as long as the
\* trigger bound allows one, is still accepted.
C10_ErrorsAreTerminalAndNeverRetried ==
  /\ [][ /\ (status'.type = "error" => NoRequestIssued)
         /\ (~NoRequestIssued => (UserTrigger \/ ResolutionContinues)) ]_vars
  /\ []( (booted /\ triggers < MaxTriggers)
         => ENABLED (searchCity(<<"Berlin">>)) )

\* a fetch failed, nothing is in flight, and a further trigger is possible
C10_Witness ==
  /\ completed.id > 0
  /\ ~completed.ok
  /\ status.type = "error"
  /\ placeReqs = {}
  /\ cityReqs = {}
  /\ geoPending = 0
  /\ triggers < MaxTriggers

\* ---- C11
\* the address tags of the call that are present, in the order housenumber,
\* street, city
PresentComponents(tags) ==
  SelectSeq(<<tags.housenumber, tags.street, tags.city>>, LAMBDA x : x # "")

\* C11: what buildAddress returns is the present components among
\* housenumber, street and city, in that order, with exactly one ", " between
\* neighbours: no separator at the start or the end, no two separators in a
\* row, and the empty string when no component is present.
C11_AddressJoinsPresentComponentsInOrder ==
  addressCall.returned =>
    LET present == PresentComponents(addressCall.tags)
        out == addressCall.address
        n == Len(present)
    IN  /\ n = 0 => out = <<>>
        /\ n > 0 => Len(out) = 2 * n - 1
        /\ \A i \in 1..n : 2 * i - 1 \in DOMAIN out /\ out[2 * i - 1] = present[i]
        /\ \A i \in 1..(n - 1) : out[2 * i] = ", "
        /\ out # <<>> => out[1] # ", " /\ out[Len(out)] # ", "
        /\ \A i \in 1..(Len(out) - 1) : ~(out[i] = ", " /\ out[i + 1] = ", ")

\* street and city without a house number came back as "Main St, Springfield"
C11_Witness ==
  /\ addressCall.returned
  /\ addressCall.tags.housenumber = ""
  /\ addressCall.tags.street = "Main St"
  /\ addressCall.tags.city = "Springfield"
  /\ addressCall.address = <<"Main St", ", ", "Springfield">>

\* ---- C12
\* C12: once a loadPizzaPlaces invocation has been started and none is in
\* flight any more, the loading overlay is hidden; and every step that ends
\* an invocation (its request leaves the set of those in flight), whatever
\* the reply was and whether or not rendering threw, leaves the overlay
\* hidden.
C12_OverlayHiddenWhenNoFetchInFlight ==
  /\ []((placeReqs = {} /\ nextId > 1) => loadingOverlay = "none")
  /\ [][ (\E r \in placeReqs : r \notin placeReqs') => loadingOverlay' = "none" ]_vars

\* two invocations overlapped, the later to end was turned down by the API
\* with success:false, and with nothing left in flight the overlay is hidden
C12_Witness ==
  /\ placeReqs = {}
  /\ nextId > 2
  /\ completed.overlapped
  /\ ~completed.ok
  /\ status = ErrorStatus("x")
  /\ loadingOverlay = "none"

====
